---- MODULE Spec2Model ----
(***************************************************************************)
(* Full Spectrum (src/full_spectrum.py): a grid puzzle whose light engine  *)
(* casts direct beams from ON sources, scatters beyond beam crossings,     *)
(* re-emits from lit crystals up to a fixed point and locks the movable    *)
(* blocks that direct light reaches.                                       *)
(*                                                                         *)
(* Two specifications share the variables:                                 *)
(*   Spec        the Game object driven by the CLI commands (interact,     *)
(*               move, reset), each handler one atomic action;             *)
(*   SpecEngine  one engine call on an arbitrary board: recompute_light    *)
(*               stepped through its loops (items of a loop taken in any   *)
(*               order), or after_change as a whole.                       *)
(***************************************************************************)
EXTENDS Integers, Sequences, FiniteSets, TLC

(* ------------------------------ bounds -------------------------------- *)
\* Config.width / Config.height / Config.energy_max / Config.lives_max are
\* configuration values (defaults 12, 12, 20, 3); the model runs small ones.
width == 3
height == 2
energy_max == 2
lives_max == 2
\* SpecEngine draws its boards from all boards with at most MaxPieces
\* non-empty cells, and from the named layouts of more pieces below.
MaxPieces == 1

(* --------------------------- voxels (class V) -------------------------- *)
BG == 0
BLOCK_MOV == 1
BLOCK_IMMOV == 2
SOURCE_ON == 5
SOURCE_OFF == 6
CRYSTAL == 9

\* The six kinds the logic places on the board (demo_level's legend).
Kinds == {BG, BLOCK_MOV, BLOCK_IMMOV, SOURCE_ON, SOURCE_OFF, CRYSTAL}

\* `t in (V.BLOCK_MOV, V.BLOCK_IMMOV)`
Blocks == {BLOCK_MOV, BLOCK_IMMOV}

\* while changed and iterations < 16
PASS_CAP == 16

DIRS == [U |-> <<-1, 0>>, D |-> <<1, 0>>, L |-> <<0, -1>>, R |-> <<0, 1>>]

\* for d in "UDLR"
UDLR == <<"U", "D", "L", "R">>

DirKeys == {"U", "D", "L", "R"}

\* Coord = (y, x)
Cells == (0 .. height - 1) \X (0 .. width - 1)

\* for y in range(height): for x in range(width)
RowMajor == [i \in 1 .. height * width |-> <<(i - 1) \div width, (i - 1) % width>>]

None == <<>>

(* ------------------------------ helpers -------------------------------- *)
\* F(v), with v evaluated once and F applied to its value: the model checker
\* evaluates operator arguments by name, so an accumulator threaded through
\* a recursion is bound to its value at every step.
Strict(v, F(_)) == CHOOSE r \in {F(x) : x \in {v}} : TRUE

in_bounds(y, x) == 0 <= y /\ y < height /\ 0 <= x /\ x < width

tile(b, y, x) == b[<<y, x>>]

set_tile(b, y, x, v) == [b EXCEPT ![<<y, x>>] = v]

RECURSIVE line_from(_, _, _, _)
line_from(ny, nx, dy, dx) ==
    IF in_bounds(ny, nx)
    THEN <<<<ny, nx>>>> \o line_from(ny + dy, nx + dx, dy, dx)
    ELSE <<>>

\* The cells the generator yields, in order.
neighbors_line(y, x, dir_key) ==
    line_from(y + DIRS[dir_key][1], x + DIRS[dir_key][2],
              DIRS[dir_key][1], DIRS[dir_key][2])

(* --------------------------- light propagation ------------------------- *)
\* beams: Dict[Coord, Set[str]]; a missing key reads as the empty set, and
\* keys is the dict's iteration order (keys in order of first insertion).
NoBeams == [c \in Cells |-> {}]

RECURSIVE beam_walk_dark(_, _, _, _, _)
\* Variant of beam_walk: the beam stops in front of a block and leaves the
\* block's cell dark.
beam_walk_dark(b, line, i, dir_key, st) ==
    IF i > Len(line) THEN st
    ELSE LET c == line[i] IN
         IF b[c] \in Blocks
         THEN st
         ELSE Strict([direct |-> st.direct \cup {c},
                      beams  |-> [st.beams EXCEPT ![c] = @ \cup {dir_key}],
                      keys   |-> st.keys],
                     LAMBDA v : beam_walk_dark(b, line, i + 1, dir_key, v))

RECURSIVE beam_walk_glass(_, _, _, _, _)
\* Variant of beam_walk: only a movable block ends the beam; an immovable one
\* is lit and passed.
beam_walk_glass(b, line, i, dir_key, st) ==
    IF i > Len(line) THEN st
    ELSE LET c == line[i] IN
         IF b[c] = BLOCK_MOV
         THEN [st EXCEPT !.direct = @ \cup {c}]
         ELSE Strict([direct |-> st.direct \cup {c},
                      beams  |-> [st.beams EXCEPT ![c] = @ \cup {dir_key}],
                      keys   |-> IF st.beams[c] = {} THEN Append(st.keys, c)
                                                     ELSE st.keys],
                     LAMBDA v : beam_walk_glass(b, line, i + 1, dir_key, v))

RECURSIVE beam_walk(_, _, _, _, _)
beam_walk(b, line, i, dir_key, st) ==
    IF i > Len(line) THEN st
    ELSE LET c == line[i] IN
         IF b[c] \in Blocks
         THEN [st EXCEPT !.direct = @ \cup {c}]
         ELSE Strict([direct |-> st.direct \cup {c},
                      beams  |-> [st.beams EXCEPT ![c] = @ \cup {dir_key}],
                      keys   |-> IF st.beams[c] = {} THEN Append(st.keys, c)
                                                     ELSE st.keys],
                     LAMBDA v : beam_walk(b, line, i + 1, dir_key, v))

RECURSIVE beam_walk_meet(_, _, _, _, _)
\* The walk of cast_beam_direct_meet.
beam_walk_meet(b, line, i, dir_key, st) ==
    IF i > Len(line) THEN st
    ELSE LET c == line[i] IN
         IF b[c] \in Blocks \/ c \in st.direct
         THEN [st EXCEPT !.direct = @ \cup {c}]
         ELSE Strict([direct |-> st.direct \cup {c},
                      beams  |-> [st.beams EXCEPT ![c] = @ \cup {dir_key}],
                      keys   |-> st.keys],
                     LAMBDA v : beam_walk_meet(b, line, i + 1, dir_key, v))

\* Variant of cast_beam_direct: a beam also ends on the first cell that is
\* already directly lit.
cast_beam_direct_meet(b, origin, dir_key, st) ==
    Strict(neighbors_line(origin[1], origin[2], dir_key),
           LAMBDA line : beam_walk_meet(b, line, 1, dir_key, st))

\* st = [direct, beams, keys]: self.light_direct and the ledger.
cast_beam_direct(b, origin, dir_key, st) ==
    Strict(neighbors_line(origin[1], origin[2], dir_key),
           LAMBDA line : beam_walk(b, line, 1, dir_key, st))

RECURSIVE cast_dirs(_, _, _, _)
\* for d in "UDLR": self.cast_beam_direct((y, x), d, beams)
cast_dirs(b, origin, i, st) ==
    IF i > Len(UDLR) THEN st
    ELSE Strict(cast_beam_direct(b, origin, UDLR[i], st),
                LAMBDA v : cast_dirs(b, origin, i + 1, v))

\* Variant of cast_source: the source's own cell is lit by its beams.
cast_source_self(b, origin, st) ==
    cast_dirs(b, origin, 1, [st EXCEPT !.direct = @ \cup {origin}])

cast_source(b, origin, st) == cast_dirs(b, origin, 1, st)

RECURSIVE cast_all_sources(_, _, _, _)
\* the scan of recompute_light over ord (RowMajor in the code)
cast_all_sources(b, ord, i, st) ==
    IF i > Len(ord) THEN st
    ELSE Strict(IF b[ord[i]] = SOURCE_ON THEN cast_source(b, ord[i], st) ELSE st,
                LAMBDA v : cast_all_sources(b, ord, i + 1, v))

RECURSIVE scatter_walk(_, _, _, _)
scatter_walk(b, line, i, scatter) ==
    IF i > Len(line) THEN scatter
    ELSE IF b[line[i]] \in Blocks
         THEN scatter \cup {line[i]}
         ELSE Strict(scatter \cup {line[i]},
                     LAMBDA v : scatter_walk(b, line, i + 1, v))

cast_scatter_from(b, start, dir_key, scatter) ==
    Strict(neighbors_line(start[1], start[2], dir_key),
           LAMBDA line : scatter_walk(b, line, 1, scatter))

\* Variant of scatter_entry: the scatter set is overwritten with the cells of
\* the entry's last direction.
scatter_entry_fresh(b, c, dseq, i, scatter) ==
    IF Len(dseq) = 0 THEN {}
    ELSE cast_scatter_from(b, c, dseq[Len(dseq)], {})

RECURSIVE scatter_entry(_, _, _, _, _)
\* for d in dirs: self.cast_scatter_from((y, x), d), dirs taken in order dseq
scatter_entry(b, c, dseq, i, scatter) ==
    IF i > Len(dseq) THEN scatter
    ELSE Strict(cast_scatter_from(b, c, dseq[i], scatter),
                LAMBDA v : scatter_entry(b, c, dseq, i + 1, v))

\* One iteration order of a set of direction keys.
dir_seq(dirs) == SelectSeq(UDLR, LAMBDA d : d \in dirs)

RECURSIVE apply_scattering(_, _, _, _, _)
\* for (y, x), dirs in beams.items(): if len(dirs) >= 2: ...
apply_scattering(b, beams, keys, i, scatter) ==
    IF i > Len(keys) THEN scatter
    ELSE Strict(IF Cardinality(beams[keys[i]]) >= 2
                THEN scatter_entry(b, keys[i], dir_seq(beams[keys[i]]), 1, scatter)
                ELSE scatter,
                LAMBDA v : apply_scattering(b, beams, keys, i + 1, v))

RECURSIVE line_walk(_, _, _, _)
\* The walk cast_direct_line_from and cast_scatter_line_from share: r.lit is
\* the target set, r.changed the function's local flag.
line_walk(b, line, i, r) ==
    IF i > Len(line) THEN r
    ELSE LET c == line[i] IN
         IF b[c] \in Blocks
         THEN [lit |-> r.lit \cup {c}, changed |-> r.changed \/ c \notin r.lit]
         ELSE Strict([lit |-> r.lit \cup {c}, changed |-> r.changed \/ c \notin r.lit],
                     LAMBDA v : line_walk(b, line, i + 1, v))

\* Variant of cast_direct_line_from: never reports a change.
cast_direct_line_from_quiet(b, start, dir_key, direct) ==
    Strict(neighbors_line(start[1], start[2], dir_key),
           LAMBDA line : [lit |-> line_walk(b, line, 1, [lit |-> direct,
                                                         changed |-> FALSE]).lit,
                          changed |-> FALSE])

\* Variant of cast_direct_line_from: reports a change for every cell it
\* lights, new or not.
cast_direct_line_from_eager(b, start, dir_key, direct) ==
    Strict(neighbors_line(start[1], start[2], dir_key),
           LAMBDA line : [lit |-> line_walk(b, line, 1, [lit |-> direct,
                                                         changed |-> FALSE]).lit,
                          changed |-> Len(line) > 0])

cast_direct_line_from(b, start, dir_key, direct) ==
    Strict(neighbors_line(start[1], start[2], dir_key),
           LAMBDA line : line_walk(b, line, 1, [lit |-> direct, changed |-> FALSE]))

cast_scatter_line_from(b, start, dir_key, scatter) ==
    Strict(neighbors_line(start[1], start[2], dir_key),
           LAMBDA line : line_walk(b, line, 1, [lit |-> scatter, changed |-> FALSE]))

\* Variant of emit_direct: a crystal's beam that runs only over cells already
\* directly lit is recorded as scatter as well.
emit_direct_crossing(b, c, dir_key, s) ==
    Strict(cast_direct_line_from(b, c, dir_key, s.direct),
           LAMBDA r : [direct |-> r.lit,
                       scatter |-> IF r.changed THEN s.scatter
                                   ELSE cast_scatter_line_from(b, c, dir_key,
                                                               s.scatter).lit,
                       changed |-> s.changed \/ r.changed])

\* changed |= self.cast_direct_line_from((y, x), d); s = [direct, scatter, changed]
emit_direct(b, c, dir_key, s) ==
    Strict(cast_direct_line_from(b, c, dir_key, s.direct),
           LAMBDA r : [direct |-> r.lit, scatter |-> s.scatter,
                       changed |-> s.changed \/ r.changed])

\* changed |= self.cast_scatter_line_from((y, x), d)
emit_scatter(b, c, dir_key, s) ==
    Strict(cast_scatter_line_from(b, c, dir_key, s.scatter),
           LAMBDA r : [direct |-> s.direct, scatter |-> r.lit,
                       changed |-> s.changed \/ r.changed])

RECURSIVE emit_dirs(_, _, _, _, _)
\* for d in "UDLR": if is_direct: ... else: ...
emit_dirs(b, c, is_direct, i, s) ==
    IF i > Len(UDLR) THEN s
    ELSE Strict(IF is_direct THEN emit_direct(b, c, UDLR[i], s)
                             ELSE emit_scatter(b, c, UDLR[i], s),
                LAMBDA v : emit_dirs(b, c, is_direct, i + 1, v))

\* The body of apply_crystals' scan for one lit crystal; is_direct is read
\* from the light set as it stands when the crystal is visited.
emit_crystal(b, c, s) == emit_dirs(b, c, c \in s.direct, 1, s)

RECURSIVE crystal_scan(_, _, _, _, _)
crystal_scan(b, lit, ord, i, s) ==
    IF i > Len(ord) THEN s
    ELSE Strict(IF b[ord[i]] = CRYSTAL /\ ord[i] \in lit
                THEN emit_crystal(b, ord[i], s) ELSE s,
                LAMBDA v : crystal_scan(b, lit, ord, i + 1, v))

\* One pass; lit is read once, before the scan.
apply_crystals(b, direct, scatter) ==
    Strict(direct \cup scatter,
           LAMBDA lit : crystal_scan(b, lit, RowMajor, 1,
                            [direct |-> direct, scatter |-> scatter, changed |-> FALSE]))

RECURSIVE refraction_loop(_, _, _)
\* while changed and iterations < 16: iterations += 1; changed = apply_crystals()
\* s = [direct, scatter, changed]
refraction_loop(b, s, iterations) ==
    IF s.changed /\ iterations < PASS_CAP
    THEN Strict(apply_crystals(b, s.direct, s.scatter),
                LAMBDA v : refraction_loop(b, v, iterations + 1))
    ELSE [direct |-> s.direct, scatter |-> s.scatter, changed |-> s.changed,
          iterations |-> iterations]

\* Variant of cleared: the set keeps what it held.
cleared_not(s) == s

\* set.clear()
cleared(s) == {}

\* The first pass of recompute_light: both sets cleared, an empty ledger, and
\* the beams of every ON source.
cast_phase(b, ld) ==
    cast_all_sources(b, RowMajor, 1,
                     [direct |-> cleared(ld), beams |-> NoBeams, keys |-> <<>>])

\* recompute_light on board b, the light sets holding ld and ls on entry;
\* the result carries the loop's last iterations and changed.
recompute_run(b, ld, ls) ==
    Strict(cast_phase(b, ld),
           LAMBDA st :
               Strict(apply_scattering(b, st.beams, st.keys, 1, cleared(ls)),
                      LAMBDA sc :
                          refraction_loop(b, [direct |-> st.direct, scatter |-> sc,
                                              changed |-> TRUE], 0)))

recompute_light(b, ld, ls) ==
    Strict(recompute_run(b, ld, ls),
           LAMBDA r : [direct |-> r.direct, scatter |-> r.scatter])

\* Variant of apply_locks: every movable block of the board is locked.
apply_locks_every(b, direct) ==
    [c \in Cells |-> IF b[c] = BLOCK_MOV THEN BLOCK_IMMOV ELSE b[c]]

\* for (y, x) in list(self.light_direct): if tile == BLOCK_MOV: set BLOCK_IMMOV
apply_locks(b, direct) ==
    [c \in Cells |-> IF c \in direct /\ b[c] = BLOCK_MOV THEN BLOCK_IMMOV ELSE b[c]]

after_change(b, ld, ls) ==
    Strict(recompute_light(b, ld, ls),
           LAMBDA r1 :
               Strict(apply_locks(b, r1.direct),
                      LAMBDA b2 :
                          Strict(recompute_light(b2, r1.direct, r1.scatter),
                                 LAMBDA r2 : [base |-> b2, direct |-> r2.direct,
                                              scatter |-> r2.scatter])))

\* Variant of spend_energy: the life is lost only once energy is below zero.
spend_energy_late(g, cost) ==
    IF g.energy - cost < 0
    THEN [energy |-> energy_max, lives |-> g.lives - 1]
    ELSE [energy |-> g.energy - cost, lives |-> g.lives]

\* spend_energy(cost): g = [energy, lives]
spend_energy(g, cost) ==
    IF g.energy - cost <= 0
    THEN [energy |-> energy_max, lives |-> g.lives - 1]
    ELSE [energy |-> g.energy - cost, lives |-> g.lives]

(* ------------------------------- state --------------------------------- *)
\* Game's fields
VARIABLES base, start_base, energy, lives, selected, light_direct, light_scatter
\* recompute_light's locals, and where a stepped call stands (SpecEngine):
\* todo holds the items the running loop has still to visit.
VARIABLES beams, changed, iterations, pc, todo

vars == <<base, start_base, energy, lives, selected, light_direct, light_scatter,
          beams, changed, iterations, pc, todo>>

game == <<base, start_base, energy, lives, selected, light_direct, light_scatter>>

locals == <<beams, changed, iterations, pc, todo>>

(* ------------------------------ the game ------------------------------- *)
\* A level layout: pieces is a set of <<cell, kind>>.
layout(pieces) ==
    [c \in Cells |-> IF \E p \in pieces : p[1] = c
                     THEN (CHOOSE p \in pieces : p[1] = c)[2]
                     ELSE BG]

\* Layouts handed to Game(cfg, base): small levels in the manner of
\* demo_level, and the all-background board __post_init__ builds by default.
Levels ==
    { layout({}),
      layout({<<<<0, 0>>, SOURCE_OFF>>, <<<<0, 2>>, BLOCK_MOV>>, <<<<1, 1>>, CRYSTAL>>}),
      layout({<<<<0, 0>>, SOURCE_ON>>, <<<<0, 2>>, BLOCK_MOV>>, <<<<1, 1>>, BLOCK_MOV>>}),
      layout({<<<<0, 0>>, SOURCE_ON>>, <<<<1, 1>>, SOURCE_OFF>>,
              <<<<0, 2>>, BLOCK_IMMOV>>, <<<<1, 2>>, CRYSTAL>>}) }

\* __post_init__
Init ==
    /\ base \in Levels
    /\ start_base = base
    /\ energy = energy_max
    /\ lives = lives_max
    /\ selected = None
    /\ \E r \in {recompute_light(base, {}, {})} :
           light_direct = r.direct /\ light_scatter = r.scatter
    /\ beams = NoBeams /\ changed = FALSE /\ iterations = 0
    /\ pc = "ready" /\ todo = {}

is_loss == lives <= 0

\* main's loop reads a command only while the game is not lost.
Playing == pc = "ready" /\ ~is_loss

\* Variant of Changed: the locks are applied from the light sets as they
\* stand and the sets are not recomputed.
ChangedStale(b, sel) ==
    /\ base' = apply_locks(b, light_direct)
    /\ UNCHANGED <<light_direct, light_scatter>>
    /\ \E g \in {spend_energy([energy |-> energy, lives |-> lives], 1)} :
           /\ energy' = g.energy
           /\ lives' = g.lives
    /\ selected' = sel
    /\ UNCHANGED <<start_base, locals>>

\* The state after a board change: the tiles b, one unit of energy spent,
\* then after_change.
Changed(b, sel) ==
    /\ \E b1 \in {b} : \E r \in {after_change(b1, light_direct, light_scatter)} :
           /\ base' = r.base
           /\ light_direct' = r.direct
           /\ light_scatter' = r.scatter
    /\ \E g \in {spend_energy([energy |-> energy, lives |-> lives], 1)} :
           /\ energy' = g.energy
           /\ lives' = g.lives
    /\ selected' = sel
    /\ UNCHANGED <<start_base, locals>>

InteractOutOfBounds(y, x) ==
    /\ Playing
    /\ ~in_bounds(y, x)
    /\ UNCHANGED vars

InteractToggle(y, x) ==
    /\ Playing
    /\ in_bounds(y, x)
    /\ tile(base, y, x) \in {SOURCE_OFF, SOURCE_ON}
    /\ Changed(set_tile(base, y, x,
                   IF tile(base, y, x) = SOURCE_OFF THEN SOURCE_ON ELSE SOURCE_OFF),
               selected)

InteractSelect(y, x) ==
    /\ Playing
    /\ in_bounds(y, x)
    /\ tile(base, y, x) \in {BLOCK_MOV, CRYSTAL}
    /\ selected' = <<y, x>>
    /\ UNCHANGED <<base, start_base, energy, lives, light_direct, light_scatter, locals>>

InteractClear(y, x) ==
    /\ Playing
    /\ in_bounds(y, x)
    /\ tile(base, y, x) \notin {SOURCE_OFF, SOURCE_ON, BLOCK_MOV, CRYSTAL}
    /\ selected' = None
    /\ UNCHANGED <<base, start_base, energy, lives, light_direct, light_scatter, locals>>

interact(y, x) ==
    \/ InteractOutOfBounds(y, x)
    \/ InteractToggle(y, x)
    \/ InteractSelect(y, x)
    \/ InteractClear(y, x)

\* (ny, nx) of move_selected
dest(dir_key) == <<selected[1] + DIRS[dir_key][1], selected[2] + DIRS[dir_key][2]>>

MoveNothingSelected(dir_key) ==
    /\ Playing
    /\ selected = None
    /\ UNCHANGED vars

MoveNoLongerMovable(dir_key) ==
    /\ Playing
    /\ selected # None
    /\ base[selected] \notin {BLOCK_MOV, CRYSTAL}
    /\ selected' = None
    /\ UNCHANGED <<base, start_base, energy, lives, light_direct, light_scatter, locals>>

MoveBoundary(dir_key) ==
    /\ Playing
    /\ selected # None
    /\ base[selected] \in {BLOCK_MOV, CRYSTAL}
    /\ ~in_bounds(dest(dir_key)[1], dest(dir_key)[2])
    /\ UNCHANGED vars

\* Variant of MoveBlocked: the blocked move is charged for and after_change
\* runs on the board as it stands.
MoveBlockedCharged(dir_key) ==
    /\ Playing
    /\ selected # None
    /\ base[selected] \in {BLOCK_MOV, CRYSTAL}
    /\ in_bounds(dest(dir_key)[1], dest(dir_key)[2])
    /\ base[dest(dir_key)] \in {BLOCK_MOV, BLOCK_IMMOV, CRYSTAL, SOURCE_OFF, SOURCE_ON}
    /\ Changed(base, selected)

MoveBlocked(dir_key) ==
    /\ Playing
    /\ selected # None
    /\ base[selected] \in {BLOCK_MOV, CRYSTAL}
    /\ in_bounds(dest(dir_key)[1], dest(dir_key)[2])
    /\ base[dest(dir_key)] \in {BLOCK_MOV, BLOCK_IMMOV, CRYSTAL, SOURCE_OFF, SOURCE_ON}
    /\ UNCHANGED vars

\* Variant of moved: the origin cell keeps its piece.
moved_copy(dir_key) ==
    set_tile(base, dest(dir_key)[1], dest(dir_key)[2], base[selected])

\* The board after the two set_tile calls of a move.
moved(dir_key) ==
    set_tile(set_tile(base, dest(dir_key)[1], dest(dir_key)[2], base[selected]),
             selected[1], selected[2], BG)

\* Variant of MoveDone: an immovable block does not stop the move.
MoveDoneOnto(dir_key) ==
    /\ Playing
    /\ selected # None
    /\ base[selected] \in {BLOCK_MOV, CRYSTAL}
    /\ in_bounds(dest(dir_key)[1], dest(dir_key)[2])
    /\ base[dest(dir_key)] \notin {BLOCK_MOV, CRYSTAL, SOURCE_OFF, SOURCE_ON}
    /\ Changed(moved(dir_key), dest(dir_key))

MoveDone(dir_key) ==
    /\ Playing
    /\ selected # None
    /\ base[selected] \in {BLOCK_MOV, CRYSTAL}
    /\ in_bounds(dest(dir_key)[1], dest(dir_key)[2])
    /\ base[dest(dir_key)] \notin {BLOCK_MOV, BLOCK_IMMOV, CRYSTAL, SOURCE_OFF, SOURCE_ON}
    /\ Changed(moved(dir_key), dest(dir_key))

move_selected(dir_key) ==
    \/ MoveNothingSelected(dir_key)
    \/ MoveNoLongerMovable(dir_key)
    \/ MoveBoundary(dir_key)
    \/ MoveBlocked(dir_key)
    \/ MoveDone(dir_key)

\* Variant of reset_level: the board is left as play made it.
reset_level_board_kept ==
    /\ Playing
    /\ \E r \in {after_change(base, light_direct, light_scatter)} :
           /\ base' = r.base
           /\ light_direct' = r.direct
           /\ light_scatter' = r.scatter
    /\ selected' = None
    /\ energy' = energy_max
    /\ UNCHANGED <<start_base, lives, locals>>

reset_level ==
    /\ Playing
    /\ \E r \in {after_change(start_base, light_direct, light_scatter)} :
           /\ base' = r.base
           /\ light_direct' = r.direct
           /\ light_scatter' = r.scatter
    /\ selected' = None
    /\ energy' = energy_max
    /\ UNCHANGED <<start_base, lives, locals>>

\* The coordinates a player may type: the grid and one step outside it.
Next ==
    \/ \E y \in -1 .. height, x \in -1 .. width : interact(y, x)
    \/ \E dir_key \in DirKeys : move_selected(dir_key)
    \/ reset_level

Spec == Init /\ [][Next]_vars

(* ------------------------------ the engine ----------------------------- *)
\* One engine call on an arbitrary board.  pc: "start" (the call is about to
\* be made; the light sets hold what an earlier board left in them), "cast"
\* (scanning the ON sources), "scatter" (resolving the ledger), "loop" (at
\* the while test of the refraction loop), "pass" (inside apply_crystals),
\* "done" (recompute_light returned), "locked" (after_change returned).
PieceSets == {S \in SUBSET Cells : Cardinality(S) <= MaxPieces}

\* Boards of more pieces: a chain of crystals, two crystals lit in the same
\* pass, a block lit through a crystal, crossing beams ending on blocks, a
\* block in the shadow of another, three sources, crossing beams with two
\* crystals, two sources facing each other, a crystal between a source and a
\* movable block, a movable block right in front of a source.
Scenarios ==
    { layout({<<<<0, 0>>, SOURCE_ON>>, <<<<0, 2>>, SOURCE_ON>>}),
      layout({<<<<0, 0>>, SOURCE_ON>>, <<<<0, 1>>, BLOCK_MOV>>}),
      layout({<<<<1, 0>>, SOURCE_ON>>, <<<<1, 1>>, CRYSTAL>>, <<<<1, 2>>, BLOCK_MOV>>}),
      layout({<<<<0, 0>>, SOURCE_ON>>, <<<<0, 1>>, CRYSTAL>>, <<<<1, 1>>, CRYSTAL>>}),
      layout({<<<<0, 0>>, SOURCE_ON>>, <<<<0, 2>>, CRYSTAL>>, <<<<1, 0>>, CRYSTAL>>}),
      layout({<<<<0, 0>>, SOURCE_ON>>, <<<<0, 1>>, CRYSTAL>>, <<<<1, 1>>, BLOCK_MOV>>}),
      layout({<<<<0, 0>>, SOURCE_ON>>, <<<<1, 1>>, SOURCE_ON>>,
              <<<<0, 2>>, BLOCK_MOV>>, <<<<1, 2>>, BLOCK_MOV>>}),
      layout({<<<<0, 0>>, SOURCE_ON>>, <<<<0, 1>>, BLOCK_IMMOV>>, <<<<0, 2>>, BLOCK_MOV>>}),
      layout({<<<<0, 0>>, SOURCE_ON>>, <<<<0, 2>>, SOURCE_ON>>, <<<<1, 1>>, SOURCE_ON>>}),
      layout({<<<<0, 0>>, SOURCE_ON>>, <<<<1, 1>>, SOURCE_ON>>,
              <<<<0, 2>>, CRYSTAL>>, <<<<1, 0>>, CRYSTAL>>}) }

\* The boards an engine call is made on.
EngineBoards ==
    UNION {{[c \in Cells |-> IF c \in S THEN f[c] ELSE BG] : f \in [S -> Kinds \ {BG}]}
           : S \in PieceSets}
    \cup Levels \cup Scenarios

\* What the light sets may hold on entry.
StaleLights == {{}, Cells}

EngineInit ==
    /\ base \in EngineBoards
    /\ start_base = base
    /\ energy = energy_max
    /\ lives = lives_max
    /\ selected = None
    /\ \E stale \in StaleLights : light_direct = stale /\ light_scatter = stale
    /\ beams = NoBeams /\ changed = FALSE /\ iterations = 0
    /\ pc = "start" /\ todo = {}

\* changed = True; iterations = 0, and on to the while test
EnterLoop ==
    /\ changed' = TRUE
    /\ iterations' = 0
    /\ pc' = "loop"
    /\ todo' = {}

\* The source scan is over with ledger bm: on to apply_scattering, whose loop
\* acts on the entries of two or more directions.
EnterScatter(bm) ==
    LET entries == {c \in Cells : Cardinality(bm[c]) >= 2}
    IN IF entries # {}
       THEN /\ pc' = "scatter"
            /\ todo' = entries
            /\ UNCHANGED <<changed, iterations>>
       ELSE EnterLoop

\* recompute_light up to its scan: clear both sets, an empty ledger.
ClearLights ==
    /\ pc = "start"
    /\ light_direct' = cleared(light_direct)
    /\ light_scatter' = cleared(light_scatter)
    /\ beams' = NoBeams
    /\ LET sources == {c \in Cells : base[c] = SOURCE_ON}
       IN IF sources # {}
          THEN /\ pc' = "cast"
               /\ todo' = sources
               /\ UNCHANGED <<changed, iterations>>
          ELSE EnterScatter(NoBeams)
    /\ UNCHANGED <<base, start_base, energy, lives, selected>>

\* Variant of CastSource: the movable blocks the beams end on are locked as
\* they are lit.
CastSourceLocking(c) ==
    /\ pc = "cast"
    /\ c \in todo
    /\ \E st \in {cast_source(base, c, [direct |-> light_direct, beams |-> beams,
                                        keys |-> <<>>])} :
           /\ light_direct' = st.direct
           /\ beams' = st.beams
           /\ base' = apply_locks(base, st.direct)
           /\ IF todo = {c}
              THEN EnterScatter(st.beams)
              ELSE /\ todo' = todo \ {c}
                   /\ UNCHANGED <<pc, changed, iterations>>
    /\ UNCHANGED <<start_base, energy, lives, selected, light_scatter>>

\* The scan reaches ON source c (the sources are taken in any order).
CastSource(c) ==
    /\ pc = "cast"
    /\ c \in todo
    /\ \E st \in {cast_source(base, c, [direct |-> light_direct, beams |-> beams,
                                        keys |-> <<>>])} :
           /\ light_direct' = st.direct
           /\ beams' = st.beams
           /\ IF todo = {c}
              THEN EnterScatter(st.beams)
              ELSE /\ todo' = todo \ {c}
                   /\ UNCHANGED <<pc, changed, iterations>>
    /\ UNCHANGED <<base, start_base, energy, lives, selected, light_scatter>>

\* The orders a loop may take the members of S in.
Orders(S) == {q \in [1 .. Cardinality(S) -> S] : \A c \in S : \E i \in DOMAIN q : q[i] = c}

\* Variant of ScatterEntry: the cells the entry scatters over are taken out
\* of the direct set.
ScatterEntryReclassify(c) ==
    /\ pc = "scatter"
    /\ c \in todo
    /\ \E dseq \in Orders(beams[c]) :
           \E sc \in {scatter_entry(base, c, dseq, 1, light_scatter)} :
               /\ light_scatter' = sc
               /\ light_direct' = light_direct \ sc
    /\ IF todo = {c}
       THEN EnterLoop
       ELSE /\ todo' = todo \ {c}
            /\ UNCHANGED <<pc, changed, iterations>>
    /\ UNCHANGED <<base, start_base, energy, lives, selected, beams>>

\* apply_scattering reaches ledger entry c (entries in any order, and the
\* directions of an entry in any order).
ScatterEntry(c) ==
    /\ pc = "scatter"
    /\ c \in todo
    /\ \E dseq \in Orders(beams[c]) :
           light_scatter' = scatter_entry(base, c, dseq, 1, light_scatter)
    /\ IF todo = {c}
       THEN EnterLoop
       ELSE /\ todo' = todo \ {c}
            /\ UNCHANGED <<pc, changed, iterations>>
    /\ UNCHANGED <<base, start_base, energy, lives, selected, light_direct, beams>>

\* The while test holds: iterations += 1 and apply_crystals starts, reading
\* lit.  With no lit crystal the pass returns False at once.
BeginPass ==
    /\ pc = "loop"
    /\ changed /\ iterations < PASS_CAP
    /\ iterations' = iterations + 1
    /\ changed' = FALSE
    /\ LET lit == light_direct \cup light_scatter
           crystals == {c \in Cells : base[c] = CRYSTAL /\ c \in lit}
       IN /\ todo' = crystals
          /\ pc' = IF crystals # {} THEN "pass" ELSE "done"
    /\ UNCHANGED <<game, beams>>

\* apply_crystals reaches lit crystal c (lit crystals in any order); after the
\* last one the pass returns and the while test is taken.
EmitCrystal(c) ==
    /\ pc = "pass"
    /\ c \in todo
    /\ \E s \in {emit_crystal(base, c, [direct |-> light_direct,
                                        scatter |-> light_scatter,
                                        changed |-> changed])} :
           /\ light_direct' = s.direct
           /\ light_scatter' = s.scatter
           /\ changed' = s.changed
           /\ todo' = todo \ {c}
           /\ pc' = IF todo # {c} THEN "pass"
                    ELSE IF s.changed /\ iterations < PASS_CAP THEN "loop"
                    ELSE "done"
    /\ UNCHANGED <<base, start_base, energy, lives, selected, beams, iterations>>

\* after_change as a whole, on the board as given and again on its result.
AfterChange ==
    /\ pc \in {"start", "locked"}
    /\ \E r \in {after_change(base, light_direct, light_scatter)} :
           /\ base' = r.base
           /\ light_direct' = r.direct
           /\ light_scatter' = r.scatter
    /\ pc' = "locked"
    /\ UNCHANGED <<start_base, energy, lives, selected, beams, changed, iterations, todo>>

EngineNext ==
    \/ ClearLights
    \/ \E c \in Cells : CastSource(c)
    \/ \E c \in Cells : ScatterEntry(c)
    \/ BeginPass
    \/ \E c \in Cells : EmitCrystal(c)
    \/ AfterChange

SpecEngine == EngineInit /\ [][EngineNext]_vars

(* ------------------- what the claims are stated with ------------------- *)
\* The cell k steps from o in direction dir_key.
Step(o, dir_key, k) == <<o[1] + k * DIRS[dir_key][1], o[2] + k * DIRS[dir_key][2]>>

MaxDim == width + height

\* The in-range cells strictly beyond o along dir_key.
Ahead(o, dir_key) == {c \in Cells : \E k \in 1 .. MaxDim : c = Step(o, dir_key, k)}

\* Those of them with no block strictly between o and the cell: the cells up
\* to and including the first block, or up to the grid edge.
Reach(b, o, dir_key) ==
    {c \in Cells : \E k \in 1 .. MaxDim :
        /\ c = Step(o, dir_key, k)
        /\ \A j \in 1 .. (k - 1) : b[Step(o, dir_key, j)] \notin Blocks}

Visible(b, o) == UNION {Reach(b, o, d) : d \in DirKeys}

CrystalsOf(b) == {c \in Cells : b[c] = CRYSTAL}

SourcesOn(b) == {c \in Cells : b[c] = SOURCE_ON}

RECURSIVE CloseUnder(_, _, _)
\* The least set holding L and, for each crystal it holds outside X, the
\* cells visible from that crystal.
CloseUnder(b, L, X) ==
    Strict(L \cup UNION {Visible(b, c) : c \in (L \ X) \cap CrystalsOf(b)},
           LAMBDA L2 : IF L2 = L THEN L ELSE CloseUnder(b, L2, X))

\* Direct light, stated without any order: what the ON sources see, closed
\* under emission by directly lit crystals.
DirectRef(b) == CloseUnder(b, UNION {Visible(b, s) : s \in SourcesOn(b)}, {})

\* The directions of the source beams that pass through c.
LedgerRef(b, c) ==
    {d \in DirKeys : b[c] \notin Blocks /\ \E s \in SourcesOn(b) : c \in Reach(b, s, d)}

\* Scatter light, stated without any order: the continuations of the source
\* beams beyond every cell two or more of them cross, closed under emission
\* by crystals that no direct light reaches.
ScatterRef(b) ==
    CloseUnder(b,
               UNION {UNION {Reach(b, c, d) : d \in LedgerRef(b, c)}
                      : c \in {x \in Cells : Cardinality(LedgerRef(b, x)) >= 2}},
               DirectRef(b))

(* ------------------------------- claims -------------------------------- *)
\* C1: after_change converts to ImmovableBlock exactly the MovableBlock cells
\* in the direct set of the stabilised illumination of the board it is given;
\* a MovableBlock outside that set stays MovableBlock and no other cell
\* changes kind.
C1_LocksExactlyDirectLit ==
    pc = "locked" =>
        base = [c \in Cells |->
                   IF start_base[c] = BLOCK_MOV
                      /\ c \in recompute_light(start_base, {}, {}).direct
                   THEN BLOCK_IMMOV
                   ELSE start_base[c]]

\* A board on which after_change has locked one movable block and left
\* another movable.
C1_Witness ==
    /\ pc = "locked"
    /\ \E c \in Cells : start_base[c] = BLOCK_MOV /\ base[c] = BLOCK_IMMOV
    /\ \E c \in Cells : start_base[c] = BLOCK_MOV /\ base[c] = BLOCK_MOV

\* The steps of the game that run after_change.
AfterChangeRan ==
    \/ \E y \in 0 .. height - 1, x \in 0 .. width - 1 : InteractToggle(y, x)
    \/ \E dir_key \in DirKeys : MoveDone(dir_key)
    \/ reset_level

\* after_change, run on the state as it stands, changes nothing.
AfterChangeFixed ==
    after_change(base, light_direct, light_scatter)
        = [base |-> base, direct |-> light_direct, scatter |-> light_scatter]

\* Every ImmovableBlock is still one after the step.
LocksKept == \A c \in Cells : base[c] = BLOCK_IMMOV => base'[c] = BLOCK_IMMOV

\* C2: locking is one-way: short of reset_level no call takes an
\* ImmovableBlock off its cell, and after any call that ran after_change a
\* second after_change changes neither the board nor the illumination.
\* (A rejected call leaves the whole state as it was.)
C2_LockOneWay ==
    [][ \/ UNCHANGED vars
        \/ /\ (LocksKept \/ reset_level)
           /\ (AfterChangeFixed' \/ ~AfterChangeRan) ]_vars

\* A block locked during play, and at least one life's worth of calls made.
C2_Witness ==
    /\ \E c \in Cells : start_base[c] = BLOCK_MOV /\ base[c] = BLOCK_IMMOV
    /\ lives < lives_max

\* C3: every cast from origin o in direction d adds to its target set exactly
\* the cells of Reach(base, o, d): up to and including the first block, or to
\* the grid edge; other kinds are lit and passed, and o itself is not added.
C3_CastStopsAtFirstBlock ==
    pc = "loop" =>
        \A o \in Cells, d \in DirKeys :
            /\ cast_beam_direct(base, o, d, [direct |-> light_direct, beams |-> beams,
                                             keys |-> <<>>]).direct
                   = light_direct \cup Reach(base, o, d)
            /\ cast_scatter_from(base, o, d, light_scatter)
                   = light_scatter \cup Reach(base, o, d)
            /\ cast_direct_line_from(base, o, d, light_direct).lit
                   = light_direct \cup Reach(base, o, d)
            /\ cast_scatter_line_from(base, o, d, light_scatter).lit
                   = light_scatter \cup Reach(base, o, d)

\* A source's beam has lit a block and left the cell behind the block dark.
C3_Witness ==
    /\ pc = "loop"
    /\ \E o \in SourcesOn(base), d \in DirKeys :
           /\ \E c \in Reach(base, o, d) : base[c] \in Blocks /\ c \in light_direct
           /\ \E c \in Ahead(o, d) \ Reach(base, o, d) : c \notin light_direct

\* The board holds one SourceOn, at s, and nothing else.
OnlySource(b, s) == b[s] = SOURCE_ON /\ \A c \in Cells \ {s} : b[c] = BG

\* C4: with a single SourceOn and nothing else on the board, recompute leaves
\* direct = the source's row and column without the source cell, scatter = {}.
C4_SingleSource ==
    \A s \in Cells :
        (pc = "done" /\ OnlySource(base, s)) =>
            /\ light_direct = {c \in Cells : c[1] = s[1] \/ c[2] = s[2]} \ {s}
            /\ s \notin light_direct
            /\ light_scatter = {}

C4_Witness ==
    /\ pc = "done"
    /\ \E s \in Cells : OnlySource(base, s)
    /\ Cardinality(light_direct) = width + height - 2

\* Two SourceOn cells l and r on one row, l left of r with a cell between,
\* and nothing else on the board.
Facing(b, l, r) ==
    /\ l[1] = r[1] /\ l[2] + 1 < r[2]
    /\ b[l] = SOURCE_ON /\ b[r] = SOURCE_ON
    /\ \A c \in Cells \ {l, r} : b[c] = BG

\* C5 (as claimed): where two facing sources' beams meet the ledger holds two
\* or more directions, and every cell beyond the meeting cell along either
\* beam is in scatter and not in direct.
C5_BeyondMeetingScatterOnly ==
    \A l \in Cells, r \in Cells :
        (pc = "done" /\ Facing(base, l, r)) =>
            \A m \in {c \in Cells : c[1] = l[1] /\ l[2] < c[2] /\ c[2] < r[2]} :
                /\ Cardinality(beams[m]) >= 2
                /\ \A c \in Ahead(m, "R") \cup Ahead(m, "L") :
                       c \in light_scatter /\ c \notin light_direct

\* C6: after recompute every directly lit crystal has lit, as direct, each of
\* its four lines up to and including the first block or the grid edge.
C6_CrystalFixedPoint ==
    pc = "done" =>
        \A c \in CrystalsOf(base) \cap light_direct, d \in DirKeys :
            Reach(base, c, d) \subseteq light_direct

\* A crystal lit through another crystal, its own lines lit, and the light
\* thrown back onto the source's cell.
C6_Witness ==
    /\ pc = "done"
    /\ \E s \in SourcesOn(base) :
           /\ s \in light_direct
           /\ \E c \in CrystalsOf(base) \cap light_direct : c \notin Visible(base, s)

\* C7: the refraction loop makes at most (number of crystals) + 1 passes and
\* the pass it stops after reported no change.
C7_PassesBounded ==
    /\ iterations <= Cardinality(CrystalsOf(base)) + 1
    /\ pc = "done" => ~changed

\* A chain of two crystals: three passes.
C7_Witness ==
    /\ pc = "done"
    /\ Cardinality(CrystalsOf(base)) >= 2
    /\ iterations = Cardinality(CrystalsOf(base)) + 1

\* C8: whatever order the sources, the ledger entries and the lit crystals
\* were taken in, recompute ends with the same two sets: the ones the
\* order-free statements DirectRef and ScatterRef give.
C8_OrderIndependent ==
    pc = "done" =>
        /\ light_direct = DirectRef(base)
        /\ light_scatter = ScatterRef(base)

\* A finished recompute in which a loop had two or more items to order.
C8_Witness ==
    /\ pc = "done"
    /\ light_scatter # {}
    /\ Cardinality(SourcesOn(base)) >= 2
    /\ Cardinality(CrystalsOf(base) \cap light_direct) >= 2

\* C9: recompute_light run again on the sets it left, or run on any other
\* content of the sets, yields the sets the first run left.
C9_Idempotent ==
    pc = "done" =>
        \A stale \in StaleLights \cup {light_direct, light_scatter} :
            recompute_light(base, stale, stale)
                = [direct |-> light_direct, scatter |-> light_scatter]
            /\ recompute_light(base, light_direct, light_scatter)
                = [direct |-> light_direct, scatter |-> light_scatter]

C9_Witness ==
    /\ pc = "done"
    /\ light_direct # {}
    /\ light_scatter # {}
    /\ light_direct # Cells

\* C10: no step of recompute_light changes a cell kind, the start layout, the
\* selection, energy or lives.
C10_RecomputeKeepsBoard ==
    [][pc' # "locked" => UNCHANGED <<base, start_base, selected, energy, lives>>]_vars

\* recompute_light has returned with a movable block in direct light, still
\* movable.
C10_Witness ==
    /\ pc = "done"
    /\ \E c \in light_direct : base[c] = BLOCK_MOV

\* C11: within one recompute, once the sets are cleared, no step (a source's
\* beams, a ledger entry's scatter casts, the start of a pass, a crystal's
\* emission) takes a coordinate out of direct or out of scatter.
C11_MonotonicGrowth ==
    [][ (pc \in {"cast", "scatter", "loop", "pass"}) =>
            (light_direct \subseteq light_direct' /\ light_scatter \subseteq light_scatter')
      ]_vars

\* A recompute that resolved a crossing and needed a second crystal pass.
C11_Witness ==
    /\ pc = "done"
    /\ iterations >= 2
    /\ light_scatter # {}

\* The step spends one unit of energy as spend_energy(1) is described.
SpentOne ==
    IF energy > 1
    THEN energy' = energy - 1 /\ lives' = lives
    ELSE energy' = energy_max /\ lives' = lives - 1

\* C12: a source toggle and a completed move each cost exactly 1 energy, the
\* unit that brings energy to 0 costing one life and refilling energy to
\* energy_max; energy stays within 1 .. energy_max and lives never increase.
C12_EnergyAndLives ==
    /\ [](1 <= energy /\ energy <= energy_max)
    /\ [][ \/ UNCHANGED vars
           \/ /\ lives' <= lives
              /\ \/ SpentOne
                 \/ ~ \/ \E y \in 0 .. height - 1, x \in 0 .. width - 1 :
                              InteractToggle(y, x)
                      \/ \E dir_key \in DirKeys : MoveDone(dir_key) ]_vars

\* A life has been lost and energy refilled, then spent from again.
C12_Witness ==
    /\ lives = lives_max - 1
    /\ energy = energy_max - 1
    /\ energy >= 1

\* What a rejected call must leave alone.
simulation == <<base, light_direct, light_scatter, energy, lives>>

\* move_selected(dir_key) is to be rejected: nothing is selected, or the
\* destination is out of range or holds a block, a crystal or a source.
MoveRejected(dir_key) ==
    IF selected = None THEN TRUE
    ELSE \/ ~in_bounds(dest(dir_key)[1], dest(dir_key)[2])
         \/ base[dest(dir_key)] \in {BLOCK_MOV, BLOCK_IMMOV, CRYSTAL, SOURCE_OFF, SOURCE_ON}

\* C13: interact on an out-of-range coordinate, and move_selected with
\* nothing selected or towards a destination that is out of range or holds a
\* block, a crystal or a source, leave the board, both light sets, energy and
\* lives as they were.
C13_RejectedCallsChangeNothing ==
    [][ /\ \A y \in -1 .. height, x \in -1 .. width :
               (~in_bounds(y, x) /\ interact(y, x)) => UNCHANGED simulation
        /\ \A dir_key \in DirKeys :
               (MoveRejected(dir_key) /\ move_selected(dir_key)) => UNCHANGED simulation
      ]_vars

\* After some play a piece is selected with an occupied cell on one side and
\* the grid edge on another.
C13_Witness ==
    /\ Playing
    /\ energy < energy_max
    /\ selected # None
    /\ base[selected] \in {BLOCK_MOV, CRYSTAL}
    /\ \E dir_key \in DirKeys : ~in_bounds(dest(dir_key)[1], dest(dir_key)[2])
    /\ \E dir_key \in DirKeys :
           /\ in_bounds(dest(dir_key)[1], dest(dir_key)[2])
           /\ base[dest(dir_key)] # BG

\* The layout captured at construction with the lock transition applied.
LockedStart ==
    [c \in Cells |-> IF start_base[c] = BLOCK_MOV /\ c \in DirectRef(start_base)
                     THEN BLOCK_IMMOV ELSE start_base[c]]

\* The state reset_level is to produce, lives apart: a function of the start
\* layout alone.
ResetResult ==
    /\ selected = None
    /\ energy = energy_max
    /\ base = LockedStart
    /\ light_direct = recompute_light(base, {}, {}).direct
    /\ light_scatter = recompute_light(base, {}, {}).scatter

\* C14: no step changes the start layout, and reset_level from any reachable
\* state leaves the board equal to the start layout with its directly lit
\* MovableBlocks locked, no selection, energy at energy_max, lives as they
\* were and the illumination equal to a recompute of that board: one state
\* whatever came before.
C14_ResetRestoresStart ==
    [][ \/ UNCHANGED vars
        \/ /\ start_base' = start_base
           /\ ((ResetResult' /\ lives' = lives) \/ ~reset_level) ]_vars

\* The state a reset gives after play that cost a life, on a level where the
\* reset locks a block.
C14_Witness ==
    /\ ResetResult
    /\ lives < lives_max
    /\ base # start_base

\* Board b with the cells of S turned into ImmovableBlocks.
Locked(b, S) == [c \in Cells |-> IF c \in S THEN BLOCK_IMMOV ELSE b[c]]

\* C15: turning any set of MovableBlocks into ImmovableBlocks leaves the
\* illumination of a board as it is; so the recompute after_change runs after
\* the locks returns the very sets its recompute before the locks returned.
C15_LocksKeepIllumination ==
    /\ pc = "done" =>
           \A S \in SUBSET {c \in Cells : base[c] = BLOCK_MOV} :
               recompute_light(Locked(base, S), {}, {})
                   = [direct |-> light_direct, scatter |-> light_scatter]
    /\ pc = "locked" =>
           recompute_light(start_base, {}, {})
               = [direct |-> light_direct, scatter |-> light_scatter]

\* after_change locked a block that ends a source's beam with dark cells
\* behind it.
C15_Witness ==
    /\ pc = "locked"
    /\ \E s \in SourcesOn(base), d \in DirKeys : \E c \in Reach(base, s, d) :
           /\ start_base[c] = BLOCK_MOV
           /\ base[c] = BLOCK_IMMOV
           /\ Ahead(c, d) # {}
           /\ Ahead(c, d) \cap light_direct = {}

\* C16: the ledger holds the directions of the source beams only, and on a
\* board where no cell is crossed by two or more of them scatter is empty
\* after recompute, whatever the beams of the crystals cross.
C16_ScatterFromSourceBeamsOnly ==
    pc = "done" =>
        /\ \A c \in Cells : beams[c] = LedgerRef(base, c)
        /\ (\A c \in Cells : Cardinality(LedgerRef(base, c)) < 2) => light_scatter = {}

\* No two source beams cross, and the beam of a directly lit crystal runs
\* through a cell a source beam passes in another direction.
C16_Witness ==
    /\ pc = "done"
    /\ \A c \in Cells : Cardinality(LedgerRef(base, c)) < 2
    /\ \E k \in CrystalsOf(base) \cap light_direct, d \in DirKeys :
           \E x \in Reach(base, k, d) :
               LedgerRef(base, x) # {} /\ d \notin LedgerRef(base, x)

\* C17 (as claimed): in every state between calls, from construction on, no
\* cell both holds a MovableBlock and is in light_direct.
C17_NoLitMovableBlock ==
    pc = "ready" => \A c \in Cells : ~(base[c] = BLOCK_MOV /\ c \in light_direct)

C19_LightsNeverStale ==
    pc = "ready" =>
        /\ recompute_light(base, {}, {})
               = [direct |-> light_direct, scatter |-> light_scatter]
        /\ light_direct \subseteq Cells
        /\ light_scatter \subseteq Cells

\* A piece has been moved off its start cell, a block has been locked, and
\* there is light on the board.
C19_Witness ==
    /\ pc = "ready"
    /\ light_direct # {}
    /\ \E c \in Cells : start_base[c] # BG /\ base[c] = BG
    /\ \E c \in Cells : start_base[c] # BLOCK_IMMOV /\ base[c] = BLOCK_IMMOV

\* The number of cells of board b holding a kind of K.
Count(b, K) == Cardinality({c \in Cells : b[c] \in K})

\* The step keeps the number of blocks, of crystals and of sources, and keeps
\* the sources where they are.
Conserved ==
    /\ Count(base', Blocks) = Count(base, Blocks)
    /\ Count(base', {CRYSTAL}) = Count(base, {CRYSTAL})
    /\ \A c \in Cells :
           base'[c] \in {SOURCE_ON, SOURCE_OFF} <=> base[c] \in {SOURCE_ON, SOURCE_OFF}

\* Cell c reads after the step as before it, or was a MovableBlock and is
\* now an ImmovableBlock.
SameOrLocked(c, before) ==
    base'[c] = before \/ (before = BLOCK_MOV /\ base'[c] = BLOCK_IMMOV)

\* The step moved the selected piece one cell along dir_key and did nothing
\* else to the board but lock blocks.
MovedOnly(dir_key) ==
    /\ base[dest(dir_key)] = BG
    /\ base'[selected] = BG
    /\ SameOrLocked(dest(dir_key), base[selected])
    /\ \A c \in Cells \ {selected, dest(dir_key)} : SameOrLocked(c, base[c])

\* C20: interact and move_selected keep the number of blocks (movable and
\* immovable together), of crystals and of sources (on and off together) and
\* keep every source on its cell; a completed move empties the origin cell,
\* puts the moved kind on a destination cell that was Empty, and changes no
\* other cell except by locking MovableBlocks.
C20_PiecesConserved ==
    [][ \/ UNCHANGED vars
        \/ /\ \/ Conserved
              \/ ~ \/ \E y \in -1 .. height, x \in -1 .. width : interact(y, x)
                   \/ \E dir_key \in DirKeys : move_selected(dir_key)
           /\ \A dir_key \in DirKeys : MoveDone(dir_key) => MovedOnly(dir_key) ]_vars

\* A source has been toggled on and a crystal moved off its start cell.
C20_Witness ==
    /\ pc = "ready"
    /\ \E c \in Cells : start_base[c] = SOURCE_OFF /\ base[c] = SOURCE_ON
    /\ \E c \in Cells : start_base[c] = CRYSTAL /\ base[c] = BG

====
